---- MODULE Spec2Model ----
(***************************************************************************)
(* Model of proxy/server.go: the request dispatcher (ProxyServer.ServeHTTP)*)
(* and the LocalRP controller (ProxyServer.startLocalRPControlServer: the  *)
(* registration, the routing loop and the heartbeat teardown).             *)
(*                                                                         *)
(* Spec          the LocalRP rendezvous: agents, routing loops, pending    *)
(*               requests (decode failures) and follow-up connections,     *)
(*               interleaved at the granularity of the shared accesses.    *)
(* SpecDispatch  the dispatch of one request after another over the auth   *)
(*               check and the option bits (DNS, LocalRP, Connect,         *)
(*               Forward, none), while an agent registers and dies.        *)
(* SpecLive      the rendezvous without follow-up connections, with weak   *)
(*               fairness on every goroutine's steps and on the timeout.   *)
(***************************************************************************)
EXTENDS Integers, Sequences, FiniteSets, TLC

\* ---------------------------------------------------------------- bounds
NumAgents  == 2
NumClients == 2
NumFollows == 2
NumTokens  == 2
NumAddrs   == 2
MaxCap     == 1
MaxHits    == 2

\* len(req.dst) >= 65535 is "request too long"
TooLong == 65535

Agents  == 1..NumAgents
Clients == 1..NumClients
Follows == 1..NumFollows
Tokens  == 1..NumTokens
Addrs   == 1..NumAddrs
DstLens == {0, TooLong}

NoOwner == 0
NilChan == 0
NoReq   == 0

VARIABLES
    DisableLRP,   \* ServerConfig.DisableLRP
    LBindCap,     \* ServerConfig.LBindCap
    mu,           \* localRP.Mutex: NoOwner or the agent holding it across steps
    downstreams,  \* localRP.downstreams
    downConns,    \* localRP.downConns
    requests,     \* localRP.requests: NilChan or the id of a channel
    chans,        \* the buffers of the channels made so far
    nchan,        \* how many channels make(chan ...) has returned
    waiting,      \* localRP.waiting: [isNil, tab: token -> connection or NoReq]
    cb,           \* the callback channel of each pending request (capacity 1)
    blacklist,    \* proxy.blacklist: address -> hits
    agent,        \* per control connection: position in startLocalRPControlServer
    loop,         \* per routing-loop goroutine (named by the agent that started it)
    client,       \* per decode-failure request: position in ServeHTTP
    follow,       \* per follow-up connection: position in ServeHTTP
    ctrlMsgs,     \* per pending request: control messages written to an agent
    stored,       \* per pending request: number of waiting-map stores
    tornDown,     \* the last teardown cleared the session, no registration since
    DisableUDP,   \* ServerConfig.DisableUDP
    Users,        \* ServerConfig.Users: [isNil, set of auth tokens]
    rq            \* the request a dispatcher is serving: position in ServeHTTP

vars == <<DisableLRP, LBindCap, mu, downstreams, downConns, requests, chans, nchan,
          waiting, cb, blacklist, agent, loop, client, follow, ctrlMsgs, stored,
          tornDown, DisableUDP, Users, rq>>

config  == <<DisableLRP, LBindCap, DisableUDP, Users>>
session == <<mu, downstreams, downConns, requests, nchan, waiting>>
lrp     == <<session, chans, cb, agent, loop, client, follow, ctrlMsgs, stored, tornDown>>

\* ---------------------------------------------------------------- helpers
RemoveAt(s, i) == SubSeq(s, 1, i - 1) \o SubSeq(s, i + 1, Len(s))

IndexOf(s, x) == CHOOSE i \in 1..Len(s) : s[i] = x

EmptyTab == [t \in Tokens |-> NoReq]

NilMap == [isNil |-> TRUE, tab |-> EmptyTab]

\* localRPCtrlSrvReq{dst, conn, callback, rawReq} and localRPCtrlSrvReq{end: true}
Req(c, d) == [end |-> FALSE, dst |-> d, conn |-> c]

EndReq == [end |-> TRUE, dst |-> 0, conn |-> NoReq]

\* An unrecovered panic in a goroutine ends the process: nothing runs after it.
Running == \A l \in Agents : loop[l].pc # "panic"

\* ---------------------------------------------------------------- initial state
NoUsers == [isNil |-> TRUE, set |-> {}]

IdleRq == [pc |-> "idle", addr |-> 1, dst |-> "", opt |-> {}, udp |-> FALSE, rej |-> "none",
           log |-> <<>>]

InitState ==
    /\ mu = NoOwner
    /\ downstreams = <<>>
    /\ downConns = <<>>
    /\ requests = NilChan
    /\ chans = [n \in Agents |-> <<>>]
    /\ nchan = 0
    /\ waiting = NilMap
    /\ cb = [c \in Clients |-> <<>>]
    /\ blacklist = [x \in Addrs |-> 0]
    /\ loop = [a \in Agents |-> [pc |-> "none", ch |-> NilChan, req |-> NoReq]]
    /\ client = [c \in Clients |->
                   [pc |-> "idle", dst |-> 0, addr |-> 1, ch |-> NilChan,
                    out |-> "none"]]
    /\ follow = [f \in Follows |-> [pc |-> "idle", resp |-> NoReq]]
    /\ ctrlMsgs = [c \in Clients |-> 0]
    /\ stored = [c \in Clients |-> 0]
    /\ tornDown = FALSE
    /\ rq = IdleRq

Init ==
    /\ InitState
    /\ DisableLRP \in BOOLEAN
    /\ LBindCap \in 0..MaxCap
    /\ DisableUDP = FALSE
    /\ Users = NoUsers
    /\ agent = [a \in Agents |-> [pc |-> "idle"]]

\* ---------------------------------------------------------------- channels
\* Deliver with the length test off by one (> for >=).
DeliverOffByOne(l, e) ==
    IF e.end
    THEN loop' = [loop EXCEPT ![l] = [pc |-> "ended", ch |-> NilChan, req |-> NoReq]]
    ELSE IF e.dst > TooLong
         THEN loop' = [loop EXCEPT ![l] = [pc |-> "toolong", ch |-> NilChan, req |-> e.conn]]
         ELSE loop' = [loop EXCEPT ![l] = [pc |-> "store", ch |-> NilChan, req |-> e.conn]]

\* What the routing loop does with the entry it received (lines 468-477).
Deliver(l, e) ==
    IF e.end
    THEN loop' = [loop EXCEPT ![l] = [pc |-> "ended", ch |-> NilChan, req |-> NoReq]]
    ELSE IF e.dst >= TooLong
         THEN loop' = [loop EXCEPT ![l] = [pc |-> "toolong", ch |-> NilChan, req |-> e.conn]]
         ELSE loop' = [loop EXCEPT ![l] = [pc |-> "store", ch |-> NilChan, req |-> e.conn]]

\* ChanSend on a channel that takes every entry at once, whatever its capacity.
ChanSendUnbounded(ch, e) ==
    /\ ch # NilChan
    /\ chans' = [chans EXCEPT ![ch] = Append(@, e)]
    /\ UNCHANGED loop

\* A send on proxy.localRP.requests: into the buffer when it has room, or, on an
\* unbuffered channel, handed to a routing loop blocked in the receive.
ChanSend(ch, e) ==
    /\ ch # NilChan
    /\ \/ /\ Len(chans[ch]) < LBindCap
          /\ chans' = [chans EXCEPT ![ch] = Append(@, e)]
          /\ UNCHANGED loop
       \/ /\ LBindCap = 0
          /\ \E l \in Agents :
                /\ loop[l].pc = "recv"
                /\ loop[l].ch = ch
                /\ Deliver(l, e)
          /\ UNCHANGED chans

\* ---------------------------------------------------------------- registration
\* Connections are numbered in their order of arrival.
InOrder(pcs, i) == \A j \in 1..(i - 1) : pcs[j].pc # "idle"

\* startLocalRPControlServer, lines 432-442: the 200 OK write failed, or LocalRP
\* is disabled: the control socket is closed.
Reject(a) ==
    /\ Running
    /\ agent[a].pc = "idle"
    /\ InOrder(agent, a)
    /\ agent' = [agent EXCEPT ![a].pc = "closed"]
    /\ UNCHANGED <<config, rq, session, chans, cb, blacklist, loop, client, follow,
                   ctrlMsgs, stored, tornDown>>

\* Register without the DisableLRP gate.
RegisterNoGate(a) ==
    /\ Running
    /\ agent[a].pc = "idle"
    /\ InOrder(agent, a)
    /\ mu = NoOwner
    /\ IF requests = NilChan
       THEN /\ nchan' = nchan + 1
            /\ requests' = nchan + 1
       ELSE UNCHANGED <<nchan, requests>>
    /\ waiting' = IF waiting.isNil THEN [isNil |-> FALSE, tab |-> EmptyTab] ELSE waiting
    /\ downstreams' = Append(downstreams, a)
    /\ downConns' = Append(downConns, a)
    /\ loop' = IF Len(downConns') = 1
               THEN [loop EXCEPT ![a] = [pc |-> "select", ch |-> NilChan, req |-> NoReq]]
               ELSE loop
    /\ agent' = [agent EXCEPT ![a].pc = "heartbeat"]
    /\ tornDown' = FALSE
    /\ UNCHANGED <<config, rq, mu, chans, cb, blacklist, client, follow, ctrlMsgs, stored>>

\* lines 438-502: past the DisableLRP gate, one critical section: lazy
\* initialisation, append, and the routing loop for the first agent.
Register(a) ==
    /\ Running
    /\ agent[a].pc = "idle"
    /\ InOrder(agent, a)
    /\ ~DisableLRP
    /\ mu = NoOwner
    /\ IF requests = NilChan
       THEN /\ nchan' = nchan + 1
            /\ requests' = nchan + 1
       ELSE UNCHANGED <<nchan, requests>>
    /\ waiting' = IF waiting.isNil THEN [isNil |-> FALSE, tab |-> EmptyTab] ELSE waiting
    /\ downstreams' = Append(downstreams, a)
    /\ downConns' = Append(downConns, a)
    /\ loop' = IF Len(downConns') = 1
               THEN [loop EXCEPT ![a] = [pc |-> "select", ch |-> NilChan, req |-> NoReq]]
               ELSE loop
    /\ agent' = [agent EXCEPT ![a].pc = "heartbeat"]
    /\ tornDown' = FALSE
    /\ UNCHANGED <<config, rq, mu, chans, cb, blacklist, client, follow, ctrlMsgs, stored>>

\* ---------------------------------------------------------------- heartbeat teardown
\* TdRemove that clears the session only when the agent it removes was the first
\* of the list.
TdRemoveFirstClears(a) ==
    /\ Running
    /\ agent[a].pc = "heartbeat"
    /\ mu = NoOwner
    /\ LET i == IndexOf(downConns, a) IN
          /\ downstreams' = RemoveAt(downstreams, i)
          /\ downConns' = RemoveAt(downConns, i)
          /\ IF i = 1
             THEN /\ agent' = [agent EXCEPT ![a].pc = "poison"]
                  /\ mu' = a
             ELSE /\ agent' = [agent EXCEPT ![a].pc = "closed"]
                  /\ UNCHANGED mu
    /\ UNCHANGED <<config, rq, requests, nchan, waiting, chans, cb, blacklist, loop, client,
                   follow, ctrlMsgs, stored, tornDown>>

\* lines 506-526: a heartbeat write or read failed; the teardown takes the mutex
\* and removes the agent (lines 531-532 too when other agents remain).
TdRemove(a) ==
    /\ Running
    /\ agent[a].pc = "heartbeat"
    /\ mu = NoOwner
    /\ LET i == IndexOf(downConns, a) IN
          /\ downstreams' = RemoveAt(downstreams, i)
          /\ downConns' = RemoveAt(downConns, i)
    /\ IF Len(downstreams') = 0
       THEN /\ agent' = [agent EXCEPT ![a].pc = "poison"]
            /\ mu' = a
       ELSE /\ agent' = [agent EXCEPT ![a].pc = "closed"]
            /\ UNCHANGED mu
    /\ UNCHANGED <<config, rq, requests, nchan, waiting, chans, cb, blacklist, loop, client,
                   follow, ctrlMsgs, stored, tornDown>>

\* line 527: the poison entry, sent while the mutex is held
TdPoison(a) ==
    /\ Running
    /\ agent[a].pc = "poison"
    /\ mu = a
    /\ ChanSend(requests, EndReq)
    /\ agent' = [agent EXCEPT ![a].pc = "clear"]
    /\ UNCHANGED <<config, rq, session, cb, blacklist, client, follow, ctrlMsgs, stored,
                   tornDown>>

\* TdClear that leaves the waiting map in place.
TdClearKeepsMap(a) ==
    /\ Running
    /\ agent[a].pc = "clear"
    /\ mu = a
    /\ requests' = NilChan
    /\ mu' = NoOwner
    /\ agent' = [agent EXCEPT ![a].pc = "closed"]
    /\ tornDown' = TRUE
    /\ UNCHANGED <<config, rq, downstreams, downConns, nchan, waiting, chans, cb, blacklist,
                   loop, client, follow, ctrlMsgs, stored>>

\* lines 528-532
TdClear(a) ==
    /\ Running
    /\ agent[a].pc = "clear"
    /\ mu = a
    /\ waiting' = NilMap
    /\ requests' = NilChan
    /\ mu' = NoOwner
    /\ agent' = [agent EXCEPT ![a].pc = "closed"]
    /\ tornDown' = TRUE
    /\ UNCHANGED <<config, rq, downstreams, downConns, nchan, chans, cb, blacklist, loop,
                   client, follow, ctrlMsgs, stored>>

\* ---------------------------------------------------------------- routing loop
\* line 467: the select evaluates proxy.localRP.requests (no lock) ...
LoopSelect(l) ==
    /\ Running
    /\ loop[l].pc = "select"
    /\ loop' = [loop EXCEPT ![l].pc = "recv", ![l].ch = requests]
    /\ UNCHANGED <<config, rq, session, chans, cb, blacklist, agent, client, follow,
                   ctrlMsgs, stored, tornDown>>

\* LoopRecv that reads the head of the queue without removing it.
LoopRecvPeek(l) ==
    /\ Running
    /\ loop[l].pc = "recv"
    /\ loop[l].ch # NilChan
    /\ Len(chans[loop[l].ch]) > 0
    /\ Deliver(l, Head(chans[loop[l].ch]))
    /\ UNCHANGED <<config, rq, session, chans, cb, blacklist, agent, client, follow,
                   ctrlMsgs, stored, tornDown>>

\* ... and blocks in the receive on that channel (lines 467-477)
LoopRecv(l) ==
    /\ Running
    /\ loop[l].pc = "recv"
    /\ loop[l].ch # NilChan
    /\ Len(chans[loop[l].ch]) > 0
    /\ chans' = [chans EXCEPT ![loop[l].ch] = Tail(@)]
    /\ Deliver(l, Head(chans[loop[l].ch]))
    /\ UNCHANGED <<config, rq, session, cb, blacklist, agent, client, follow, ctrlMsgs,
                   stored, tornDown>>

\* lines 473-476: the "request too long" error on the callback channel
LoopFail(l) ==
    /\ Running
    /\ loop[l].pc = "toolong"
    /\ Len(cb[loop[l].req]) < 1
    /\ cb' = [cb EXCEPT ![loop[l].req] = Append(@, "err")]
    /\ loop' = [loop EXCEPT ![l].pc = "select", ![l].req = NoReq]
    /\ UNCHANGED <<config, rq, session, chans, blacklist, agent, client, follow, ctrlMsgs,
                   stored, tornDown>>

\* LoopStore without the Lock of line 486.
LoopStoreNoLock(l) ==
    /\ Running
    /\ loop[l].pc = "store"
    /\ IF waiting.isNil
       THEN /\ loop' = [loop EXCEPT ![l].pc = "panic"]
            /\ UNCHANGED <<waiting, stored>>
       ELSE /\ \E localrpr \in Tokens :
                 waiting' = [waiting EXCEPT !.tab[localrpr] = loop[l].req]
            /\ stored' = [stored EXCEPT ![loop[l].req] = @ + 1]
            /\ loop' = [loop EXCEPT ![l].pc = "pick"]
    /\ UNCHANGED <<config, rq, mu, downstreams, downConns, requests, nchan, chans, cb,
                   blacklist, agent, client, follow, ctrlMsgs, tornDown>>

\* lines 479-491: the token is minted and the waiting-map entry stored; storing
\* into a nil map panics.
LoopStore(l) ==
    /\ Running
    /\ loop[l].pc = "store"
    /\ mu = NoOwner
    /\ IF waiting.isNil
       THEN /\ loop' = [loop EXCEPT ![l].pc = "panic"]
            /\ UNCHANGED <<waiting, stored>>
       ELSE /\ \E localrpr \in Tokens :
                 waiting' = [waiting EXCEPT !.tab[localrpr] = loop[l].req]
            /\ stored' = [stored EXCEPT ![loop[l].req] = @ + 1]
            /\ loop' = [loop EXCEPT ![l].pc = "pick"]
    /\ UNCHANGED <<config, rq, mu, downstreams, downConns, requests, nchan, chans, cb,
                   blacklist, agent, client, follow, ctrlMsgs, tornDown>>

\* pickAControlConn (lines 425-429): Intn(0) panics on an empty list
pickAControlConn == {downConns[i] : i \in 1..Len(downConns)}

\* lines 493-494: pick an agent, write the control message asynchronously
LoopPick(l) ==
    /\ Running
    /\ loop[l].pc = "pick"
    /\ mu = NoOwner
    /\ IF pickAControlConn = {}
       THEN /\ loop' = [loop EXCEPT ![l].pc = "panic"]
            /\ UNCHANGED ctrlMsgs
       ELSE /\ \E connw \in pickAControlConn :
                 ctrlMsgs' = [ctrlMsgs EXCEPT ![loop[l].req] = @ + 1]
            /\ loop' = [loop EXCEPT ![l].pc = "select", ![l].req = NoReq]
    /\ UNCHANGED <<config, rq, session, chans, cb, blacklist, agent, client, follow,
                   stored, tornDown>>

\* ---------------------------------------------------------------- pending requests
\* ClientCheck that answers the default page without recording the address.
ClientCheckNoRecord(c) ==
    /\ Running
    /\ client[c].pc = "idle"
    /\ InOrder(client, c)
    /\ \E d \in DstLens, x \in Addrs :
          IF waiting.isNil
          THEN client' = [client EXCEPT ![c] =
                  [@ EXCEPT !.pc = "done", !.dst = d, !.addr = x, !.out = "default"]]
          ELSE client' = [client EXCEPT ![c] = [@ EXCEPT !.pc = "eval", !.dst = d]]
    /\ UNCHANGED <<config, rq, session, chans, cb, blacklist, agent, loop, follow, ctrlMsgs,
                   stored, tornDown>>

\* ServeHTTP lines 162-180 and 211-214: the envelope failed to decode. The remote
\* address is used on the reject path only, and kept there only.
ClientCheck(c) ==
    /\ Running
    /\ client[c].pc = "idle"
    /\ InOrder(client, c)
    /\ \E d \in DstLens, x \in Addrs :
          IF waiting.isNil
          THEN /\ blacklist' = [blacklist EXCEPT ![x] = @ + 1]
               /\ client' = [client EXCEPT ![c] =
                     [@ EXCEPT !.pc = "done", !.dst = d, !.addr = x,
                               !.out = "default"]]
          ELSE /\ client' = [client EXCEPT ![c] = [@ EXCEPT !.pc = "eval", !.dst = d]]
               /\ UNCHANGED blacklist
    /\ UNCHANGED <<config, rq, session, chans, cb, agent, loop, follow, ctrlMsgs, stored,
                   tornDown>>

\* line 181: the send statement evaluates proxy.localRP.requests (no lock) ...
ClientEval(c) ==
    /\ Running
    /\ client[c].pc = "eval"
    /\ client' = [client EXCEPT ![c].pc = "send", ![c].ch = requests]
    /\ UNCHANGED <<config, rq, session, chans, cb, blacklist, agent, loop, follow,
                   ctrlMsgs, stored, tornDown>>

\* ... and blocks until that channel takes the request (lines 181-186)
ClientSend(c) ==
    /\ Running
    /\ client[c].pc = "send"
    /\ ChanSend(client[c].ch, Req(c, client[c].dst))
    /\ client' = [client EXCEPT ![c].pc = "wait", ![c].ch = NilChan]
    /\ UNCHANGED <<config, rq, session, cb, blacklist, agent, follow, ctrlMsgs, stored,
                   tornDown>>

\* lines 190-194: the completion signal
ClientRecv(c) ==
    /\ Running
    /\ client[c].pc = "wait"
    /\ Len(cb[c]) > 0
    /\ cb' = [cb EXCEPT ![c] = Tail(@)]
    /\ IF Head(cb[c]) = "err"
       THEN client' = [client EXCEPT ![c].pc = "done", ![c].out = "400"]
       ELSE client' = [client EXCEPT ![c].pc = "cleanup", ![c].out = "ok"]
    /\ UNCHANGED <<config, rq, session, chans, blacklist, agent, loop, follow, ctrlMsgs,
                   stored, tornDown>>

\* lines 195-197: the bind timeout
ClientTimeout(c) ==
    /\ Running
    /\ client[c].pc = "wait"
    /\ client' = [client EXCEPT ![c].pc = "cleanup", ![c].out = "502"]
    /\ UNCHANGED <<config, rq, session, chans, cb, blacklist, agent, loop, follow,
                   ctrlMsgs, stored, tornDown>>

\* lines 201-209: delete the first entry found whose connection is this one
ClientCleanup(c) ==
    /\ Running
    /\ client[c].pc = "cleanup"
    /\ mu = NoOwner
    /\ LET ks == {k \in Tokens : waiting.tab[k] = c} IN
          IF waiting.isNil \/ ks = {}
          THEN UNCHANGED waiting
          ELSE \E k \in ks : waiting' = [waiting EXCEPT !.tab[k] = NoReq]
    /\ client' = [client EXCEPT ![c].pc = "done"]
    /\ UNCHANGED <<config, rq, mu, downstreams, downConns, requests, nchan, chans, cb,
                   blacklist, agent, loop, follow, ctrlMsgs, stored, tornDown>>

\* ---------------------------------------------------------------- follow-up connections
\* lines 247-254: the waiting-map lookup of the token the connection presents
FollowLookup(f) ==
    /\ Running
    /\ follow[f].pc = "idle"
    /\ InOrder(follow, f)
    /\ \E t \in Tokens :
          IF waiting.isNil
          THEN follow' = [follow EXCEPT ![f].pc = "dropped"]
          ELSE /\ mu = NoOwner
               /\ IF waiting.tab[t] = NoReq
                  THEN follow' = [follow EXCEPT ![f].pc = "dropped"]
                  ELSE follow' = [follow EXCEPT ![f].pc = "bridge",
                                                ![f].resp = waiting.tab[t]]
    /\ UNCHANGED <<config, rq, session, chans, cb, blacklist, agent, loop, client,
                   ctrlMsgs, stored, tornDown>>

\* lines 256-258: hijack, success response, bridge to the original connection
FollowBridge(f) ==
    /\ Running
    /\ follow[f].pc = "bridge"
    /\ follow' = [follow EXCEPT ![f].pc = "signal"]
    /\ UNCHANGED <<config, rq, session, chans, cb, blacklist, agent, loop, client,
                   ctrlMsgs, stored, tornDown>>

\* lines 259-260: the completion signal to the original dispatcher
FollowSignal(f) ==
    /\ Running
    /\ follow[f].pc = "signal"
    /\ Len(cb[follow[f].resp]) < 1
    /\ cb' = [cb EXCEPT ![follow[f].resp] = Append(@, "ok")]
    /\ follow' = [follow EXCEPT ![f].pc = "done"]
    /\ UNCHANGED <<config, rq, session, chans, blacklist, agent, loop, client, ctrlMsgs,
                   stored, tornDown>>

\* ---------------------------------------------------------------- dispatcher
\* The option bits the dispatch tests, and the destinations it tells apart: the
\* empty string, the reserved literal "localrp", anything else.
Opts == {"doDNS", "doLocalRP", "doConnect", "doForward"}

Dsts == {"", "localrp", "other"}

Auths == {"alice", "mallory"}

\* proxy.auth (lines 86-93)
auth(a) == a \in Users.set

\* Branch with the Connect test ahead of the LocalRP test.
BranchConnectFirst(opt) ==
    IF "doDNS" \in opt THEN "dns"
    ELSE IF "doConnect" \in opt THEN "connect"
    ELSE IF "doLocalRP" \in opt THEN "localrp"
    ELSE IF "doForward" \in opt THEN "forward"
    ELSE "else"

\* lines 230, 241, 262, 317, 350: the if-else chain over the option bits
Branch(opt) ==
    IF "doDNS" \in opt THEN "dns"
    ELSE IF "doLocalRP" \in opt THEN "localrp"
    ELSE IF "doConnect" \in opt THEN "connect"
    ELSE IF "doForward" \in opt THEN "forward"
    ELSE "else"

\* lines 162-222: where a request goes before the option bits are looked at
Route(addrOk, dst, crOk, a, opt) ==
    IF ~addrOk THEN "badaddr"
    ELSE IF dst = "" \/ ~crOk THEN "invalid"
    ELSE IF ~Users.isNil /\ ~auth(a) THEN "authfail"
    ELSE Branch(opt)

Log(e) == rq' = [rq EXCEPT !.pc = "done", !.log = rq.log \o e]

\* a return on a path that turns the request down; why is the condition that took it
Rejected(why, e) == rq' = [rq EXCEPT !.pc = "done", !.rej = why, !.log = rq.log \o e]

\* what the dispatcher keeps of a request: the option bits are read by the
\* dispatch only (line 230 on)
NewRq(x, route, dst, opt) ==
    [pc |-> route, addr |-> x, dst |-> dst,
     opt |-> IF route \in {"badaddr", "invalid", "authfail"} THEN {} ELSE opt,
     udp |-> FALSE, rej |-> "none", log |-> <<>>]

\* replySomething (lines 147-160)
replySomething == <<"default">>

\* lines 162-176 and 217-230: a request arrives, once the one before it returned or
\* was handed to the LocalRP controller
Accept ==
    /\ Running
    /\ rq.pc \in {"idle", "done", "pending", "register", "fulfil"}
    /\ \E x \in Addrs, addrOk \in BOOLEAN :
          /\ blacklist[x] < MaxHits
          /\ IF ~addrOk
             THEN rq' = NewRq(x, Route(FALSE, "", FALSE, "mallory", {}), "", {})
             ELSE \E dst \in Dsts, crOk \in BOOLEAN :
                     IF dst = "" \/ ~crOk
                     THEN rq' = NewRq(x, Route(TRUE, dst, crOk, "mallory", {}), dst, {})
                     ELSE \E a \in Auths, opt \in SUBSET Opts :
                             rq' = NewRq(x, Route(TRUE, dst, TRUE, a, opt), dst, opt)
    /\ UNCHANGED <<config, lrp, blacklist>>

\* lines 163-167
BadAddr ==
    /\ Running
    /\ rq.pc = "badaddr"
    /\ Log(replySomething)
    /\ UNCHANGED <<config, lrp, blacklist>>

\* lines 176-214: the envelope failed to decode
Invalid ==
    /\ Running
    /\ rq.pc = "invalid"
    /\ IF waiting.isNil
       THEN /\ blacklist' = [blacklist EXCEPT ![rq.addr] = @ + 1]
            /\ Rejected("decode", <<"blacklist">> \o replySomething)
       ELSE /\ rq' = [rq EXCEPT !.pc = "pending", !.log = <<"hijack">>]
            /\ UNCHANGED blacklist
    /\ UNCHANGED <<config, lrp>>

\* lines 217-222
AuthFail ==
    /\ Running
    /\ rq.pc = "authfail"
    /\ Rejected("auth", <<>>)
    /\ UNCHANGED <<config, lrp, blacklist>>

\* lines 230-240
ServeDNS ==
    /\ Running
    /\ rq.pc = "dns"
    /\ Log(<<"dns200">>)
    /\ UNCHANGED <<config, lrp, blacklist>>

\* lines 241-261: registration, fulfilment, or nothing at all
ServeLocalRP ==
    /\ Running
    /\ rq.pc = "localrp"
    /\ IF rq.dst = "localrp"
       THEN rq' = [rq EXCEPT !.pc = "register", !.log = <<"hijack">>]
       ELSE IF ~waiting.isNil
            THEN rq' = [rq EXCEPT !.pc = "fulfil"]
            ELSE Log(<<>>)
    /\ UNCHANGED <<config, lrp, blacklist>>

\* lines 262-287: Connect up to the dial
ServeConnect ==
    /\ Running
    /\ rq.pc = "connect"
    /\ IF rq.dst = ""
       THEN Rejected("host", replySomething)
       ELSE \/ Log(<<>>)
            \/ \E udp \in BOOLEAN :
                  IF udp /\ DisableUDP
                  THEN rq' = [rq EXCEPT !.pc = "done", !.udp = udp,
                                        !.log = <<"hijack", "close">>]
                  ELSE rq' = [rq EXCEPT !.pc = "dial", !.udp = udp,
                                        !.log = <<"hijack">>]
    /\ UNCHANGED <<config, lrp, blacklist>>

\* ConnectDial that goes on to the success response whatever the dial returned.
ConnectDialNoReturn ==
    /\ Running
    /\ rq.pc = "dial"
    /\ \/ rq' = [rq EXCEPT !.pc = "reply", !.log = Append(@, "dial_ok")]
       \/ rq' = [rq EXCEPT !.pc = "reply", !.log = @ \o <<"dial_fail", "close">>]
    /\ UNCHANGED <<config, lrp, blacklist>>

\* lines 289-307: the dial, and the close when it failed
ConnectDial ==
    /\ Running
    /\ rq.pc = "dial"
    /\ \/ rq' = [rq EXCEPT !.pc = "reply", !.log = Append(@, "dial_ok")]
       \/ Log(<<"dial_fail", "close">>)
    /\ UNCHANGED <<config, lrp, blacklist>>

\* line 309: replyGood
ConnectReply ==
    /\ Running
    /\ rq.pc = "reply"
    /\ rq' = [rq EXCEPT !.pc = "relay", !.log = Append(@, "reply")]
    /\ UNCHANGED <<config, lrp, blacklist>>

\* lines 311-316: multiplexer upgrade or bridge
ConnectRelay ==
    /\ Running
    /\ rq.pc = "relay"
    /\ \E mux \in BOOLEAN : Log(<<IF mux THEN "upgrade" ELSE "bridge">>)
    /\ UNCHANGED <<config, lrp, blacklist>>

\* lines 317-329: Forward up to the round trip
ServeForward ==
    /\ Running
    /\ rq.pc = "forward"
    /\ \/ Rejected("url", replySomething)
       \/ rq' = [rq EXCEPT !.pc = "roundtrip"]
    /\ UNCHANGED <<config, lrp, blacklist>>

\* lines 331-349
ForwardRoundTrip ==
    /\ Running
    /\ rq.pc = "roundtrip"
    /\ \/ Log(<<"500">>)
       \/ Log(<<"status", "copy">>)
    /\ UNCHANGED <<config, lrp, blacklist>>

\* lines 350-353
ServeElse ==
    /\ Running
    /\ rq.pc = "else"
    /\ blacklist' = [blacklist EXCEPT ![rq.addr] = @ + 1]
    /\ Rejected("opt", <<"blacklist">> \o replySomething)
    /\ UNCHANGED <<config, lrp>>

\* ---------------------------------------------------------------- specification
AgentStep(a) ==
    \/ Reject(a)
    \/ Register(a)
    \/ TdRemove(a)
    \/ TdPoison(a)
    \/ TdClear(a)

LoopStep(l) ==
    \/ LoopSelect(l)
    \/ LoopRecv(l)
    \/ LoopFail(l)
    \/ LoopStore(l)
    \/ LoopPick(l)

ClientStep(c) ==
    \/ ClientCheck(c)
    \/ ClientEval(c)
    \/ ClientSend(c)
    \/ ClientRecv(c)
    \/ ClientTimeout(c)
    \/ ClientCleanup(c)

FollowStep(f) ==
    \/ FollowLookup(f)
    \/ FollowBridge(f)
    \/ FollowSignal(f)

Next ==
    \/ \E a \in Agents : AgentStep(a)
    \/ \E l \in Agents : LoopStep(l)
    \/ \E c \in Clients : ClientStep(c)
    \/ \E f \in Follows : FollowStep(f)

Spec == Init /\ [][Next]_vars

\* The dispatcher serving one request after another while an agent registers and
\* dies: the control connections before the last one were closed at the 200 OK
\* write (line 434).
InitDispatch ==
    /\ InitState
    /\ agent = [a \in Agents |-> [pc |-> IF a < NumAgents THEN "closed" ELSE "idle"]]
    /\ DisableLRP = FALSE
    /\ LBindCap = MaxCap
    /\ DisableUDP \in BOOLEAN
    /\ Users \in {NoUsers, [isNil |-> FALSE, set |-> {"alice"}]}

NextDispatch ==
    \/ Accept
    \/ BadAddr
    \/ Invalid
    \/ AuthFail
    \/ ServeDNS
    \/ ServeLocalRP
    \/ ServeConnect
    \/ ConnectDial
    \/ ConnectReply
    \/ ConnectRelay
    \/ ServeForward
    \/ ForwardRoundTrip
    \/ ServeElse
    \/ \E a \in Agents : AgentStep(a)
    \/ \E l \in Agents : LoopSelect(l) \/ LoopRecv(l)

SpecDispatch == InitDispatch /\ [][NextDispatch]_vars

\* The rendezvous without follow-up connections, under the scheduler's fairness:
\* a goroutine that can take a step eventually takes one, and the bind timeout
\* elapses. Arrivals (registrations, requests) and heartbeat failures are the
\* environment's and need not happen.
NextLive ==
    \/ \E a \in Agents : AgentStep(a)
    \/ \E l \in Agents : LoopStep(l)
    \/ \E c \in Clients : ClientStep(c)

TeardownRuns(a) == TdPoison(a) \/ TdClear(a)

DispatcherRuns(c) ==
    \/ ClientEval(c)
    \/ ClientSend(c)
    \/ ClientRecv(c)
    \/ ClientTimeout(c)
    \/ ClientCleanup(c)

Fairness ==
    /\ \A a \in Agents : WF_vars(TeardownRuns(a))
    /\ \A l \in Agents : WF_vars(LoopStep(l))
    /\ \A c \in Clients : WF_vars(DispatcherRuns(c))

SpecLive == Init /\ [][NextLive]_vars /\ Fairness

\* ================================================================ claims
\* Where a pending request is: handed to the queue, still in a queue buffer.
Enqueued(c) ==
    \/ client[c].pc \in {"wait", "cleanup"}
    \/ client[c].pc = "done" /\ client[c].out # "default"

InQueue(c) == \E n \in Agents : \E i \in 1..Len(chans[n]) : chans[n][i].conn = c

Popped(c) == Enqueued(c) /\ ~InQueue(c)

Bridged(f, c) == follow[f].pc \in {"signal", "done"} /\ follow[f].resp = c

\* the session state of section 4.2: no agent registered, nobody changing that
NoSession == Len(downstreams) = 0 /\ mu = NoOwner

\* C1: every token of the waiting map is bound to one pending request, no pending
\* request is bound to more than one token, and no pending request ever gets a
\* second waiting-map store or a second control message.
C1_TokenBinding ==
    /\ \A t \in Tokens : waiting.tab[t] \in Clients \cup {NoReq}
    /\ \A c \in Clients :
          /\ Cardinality({t \in Tokens : waiting.tab[t] = c}) <= 1
          /\ stored[c] <= 1
          /\ ctrlMsgs[c] <= 1

C1_Witness ==
    /\ \A c \in Clients : stored[c] = 1 /\ ctrlMsgs[c] = 1
    /\ Cardinality({waiting.tab[t] : t \in Tokens} \cap Clients) = 2

\* C2: once the teardown of the last agent has run, the waiting map and the queue
\* handle are nil, and until an agent registers again a decode failure is answered
\* with the default page and nothing is enqueued.
C2_TornDownTerminal ==
    /\ [](tornDown => waiting.isNil /\ requests = NilChan)
    /\ [][\A c \in Clients :
            (tornDown /\ client[c].pc = "idle" /\ client'[c].pc # "idle")
            => /\ client'[c].pc = "done"
               /\ client'[c].out = "default"
               /\ chans' = chans
               /\ loop' = loop]_vars

C2_Witness ==
    /\ tornDown
    /\ nchan = 1
    /\ client[1].out = "502"
    /\ client[2].pc = "done" /\ client[2].out = "default"

\* C3: once the dispatcher of a timed-out pending request (502 written) has
\* returned, no waiting-map entry references that request's connection.
C3_TimedOutAbsent ==
    \A c \in Clients :
       (client[c].pc = "done" /\ client[c].out = "502")
       => \A t \in Tokens : waiting.tab[t] # c

\* C4: the original connection of a pending request is bridged to at most one
\* follow-up connection.
C4_SingleBridge ==
    \A c \in Clients : Cardinality({f \in Follows : Bridged(f, c)}) <= 1

\* C5: no queue ever holds more than LBindCap entries; a dispatcher whose enqueue
\* finds the queue full stays blocked while the queue only loses its head to the
\* routing loop; and a step changes a queue only by appending one entry within the
\* capacity or by removing its head.
C5_QueueCapacity ==
    /\ [](\A n \in Agents : Len(chans[n]) <= LBindCap)
    /\ [][/\ \A c \in Clients :
               (/\ client[c].pc = "send"
                /\ client[c].ch # NilChan
                /\ LBindCap > 0
                /\ Len(chans[client[c].ch]) = LBindCap)
               => /\ client'[c].pc = "send"
                  /\ \/ chans'[client[c].ch] = chans[client[c].ch]
                     \/ chans'[client[c].ch] = Tail(chans[client[c].ch])
          /\ \A c \in Clients :
               (LBindCap = 0 /\ client[c].pc = "send" /\ client'[c].pc = "wait")
               => \E l \in Agents : loop[l].pc = "recv" /\ loop'[l].pc # "recv"
          /\ \A n \in Agents :
               \/ chans'[n] = chans[n]
               \/ /\ Len(chans[n]) < LBindCap
                  /\ Len(chans'[n]) = Len(chans[n]) + 1
                  /\ SubSeq(chans'[n], 1, Len(chans[n])) = chans[n]
               \/ /\ chans[n] # <<>>
                  /\ chans'[n] = Tail(chans[n])
                  /\ \E l \in Agents : loop[l].pc = "recv" /\ loop'[l].pc # "recv"]_vars

C5_Witness ==
    \E c \in Clients :
       /\ client[c].pc = "send"
       /\ client[c].ch # NilChan
       /\ LBindCap > 0
       /\ Len(chans[client[c].ch]) = LBindCap

\* C6: a pending request whose destination is 65535 bytes or longer, once popped,
\* gets the "too long" error on its completion channel (which has room for it),
\* its dispatcher answers 400 when it takes that signal, and the request never
\* gets a token, a waiting-map entry or a control message.
C6_TooLong ==
    \A c \in Clients :
       client[c].dst >= TooLong
       => /\ stored[c] = 0
          /\ ctrlMsgs[c] = 0
          /\ \A t \in Tokens : waiting.tab[t] # c
          /\ \A l \in Agents :
                loop[l].req = c => loop[l].pc = "toolong" /\ cb[c] = <<>>
          /\ Popped(c)
             => \/ \E l \in Agents : loop[l].pc = "toolong" /\ loop[l].req = c
                \/ cb[c] = <<"err">>
                \/ client[c].out = "400"
          /\ client[c].out \in {"none", "default", "400", "502"}
          /\ \A f \in Follows : follow[f].resp # c

C6_Witness ==
    \E c \in Clients :
       client[c].dst >= TooLong /\ client[c].pc = "done" /\ client[c].out = "400"

\* C6 as stated: the dispatcher of every popped request with a destination of 65535
\* bytes or longer writes the 400 response.
C6_Always400 ==
    \A c \in Clients :
       (client[c].dst >= TooLong /\ Popped(c) /\ client[c].pc = "done")
       => client[c].out = "400"

\* what the dispatcher did for the request it is serving
Did(e) == \E i \in 1..Len(rq.log) : rq.log[i] = e

Before(e, i) == \E j \in 1..(i - 1) : rq.log[j] = e

\* C7: in Connect mode the success response comes only after a successful dial, the
\* bridge or the multiplexer upgrade only after the success response; after a failed
\* dial, or a UDP relay asked for while disabled, the hijacked socket is closed and
\* the request gets no success response and no bridge, then or later.
C7_ConnectOrder ==
    /\ [](/\ \A i \in 1..Len(rq.log) :
               /\ rq.log[i] = "reply" => Before("dial_ok", i)
               /\ rq.log[i] \in {"bridge", "upgrade"} => Before("reply", i)
               /\ rq.log[i] \in {"dial_ok", "dial_fail", "close"} => Before("hijack", i)
          /\ (Did("dial_fail") \/ (Did("hijack") /\ rq.udp /\ DisableUDP))
             => /\ Did("close")
                /\ ~Did("dial_ok") /\ ~Did("reply")
                /\ ~Did("bridge") /\ ~Did("upgrade")
                /\ rq.pc = "done")
    /\ [][(rq.pc = "done" /\ rq' # rq) => rq'.log = <<>>]_vars

C7_Witness ==
    /\ rq.pc = "done"
    /\ rq.log = <<"hijack", "dial_ok", "reply", "bridge">>
    /\ blacklist[rq.addr] = 0

\* C9: a request the dispatcher turned down (undecodable envelope with no session,
\* auth token not among the users, Connect with an empty destination, Forward with an
\* unparsable URL, no recognised option bit) has an AbuseGuard hit recorded for its
\* address by the time the dispatcher returns.
C9_RejectsRecorded == (rq.pc = "done" /\ rq.rej # "none") => Did("blacklist")

\* C8: with no LocalRP session, a request whose envelope fails to decode is answered
\* with the default page, the hit count of its address goes up by exactly one, and
\* nothing is hijacked or enqueued.
C8_DecodeFailureNoSession ==
    [][\A c \in Clients :
         (NoSession /\ client[c].pc = "idle" /\ client'[c].pc # "idle")
         => /\ client'[c].pc = "done"
            /\ client'[c].out = "default"
            /\ blacklist' = [blacklist EXCEPT ![client'[c].addr] = @ + 1]
            /\ chans' = chans
            /\ loop' = loop
            /\ cb' = cb]_vars

C8_Witness ==
    /\ NoSession
    /\ \E x \in Addrs :
          /\ blacklist[x] = 2
          /\ \A c \in Clients :
                client[c].pc = "done" /\ client[c].out = "default" /\ client[c].addr = x

\* C10: with DisableLRP set, a registration attempt only closes the control socket:
\* no agent is appended, the queue handle and the waiting map stay nil, and no
\* routing loop or heartbeat is started.
C10_DisabledNoSession ==
    DisableLRP
    => /\ downstreams = <<>>
       /\ downConns = <<>>
       /\ requests = NilChan
       /\ nchan = 0
       /\ waiting.isNil
       /\ mu = NoOwner
       /\ \A a \in Agents : agent[a].pc \in {"idle", "closed"} /\ loop[a].pc = "none"

C10_Witness == DisableLRP /\ \A a \in Agents : agent[a].pc = "closed"

\* the branch the option bits of the request select, in the order DNS, LocalRP,
\* Connect, Forward
First(o) ==
    IF "doDNS" \in o THEN "dns"
    ELSE IF "doLocalRP" \in o THEN "localrp"
    ELSE IF "doConnect" \in o THEN "connect"
    ELSE IF "doForward" \in o THEN "forward"
    ELSE "else"

\* the branch an effect or a position of the dispatcher belongs to
BranchOf(e) ==
    IF e \in {"dns", "dns200"} THEN "dns"
    ELSE IF e \in {"localrp", "register", "fulfil"} THEN "localrp"
    ELSE IF e \in {"connect", "dial", "reply", "relay", "dial_ok", "dial_fail", "close",
                   "bridge", "upgrade"} THEN "connect"
    ELSE IF e \in {"forward", "roundtrip", "500", "status", "copy"} THEN "forward"
    ELSE IF e \in {"else"} THEN "else"
    ELSE "any"

\* C11: a decoded and authorised request runs the first branch whose bit is set, in
\* the order DNS, LocalRP, Connect, Forward, and no effect of another branch; with
\* none of the bits set it gets the AbuseGuard hit and the default page.
C11_Precedence ==
    /\ [](/\ BranchOf(rq.pc) # "any" => BranchOf(rq.pc) = First(rq.opt)
          /\ \A i \in 1..Len(rq.log) :
                BranchOf(rq.log[i]) # "any" => BranchOf(rq.log[i]) = First(rq.opt)
          /\ rq.rej = "opt" => rq.opt \cap Opts = {})
    /\ [][rq.pc = "else" /\ rq' # rq
          => /\ rq'.pc = "done"
             /\ rq'.log = <<"blacklist", "default">>
             /\ blacklist' = [blacklist EXCEPT ![rq.addr] = @ + 1]]_vars

C11_Witness ==
    /\ rq.pc = "fulfil"
    /\ rq.opt = {"doLocalRP", "doConnect", "doForward"}
    /\ rq.dst = "other"

\* C12: a dispatcher that timed out (502 written) has returned only after a
\* completion signal arrived on the completion channel of its request.
C12_WaitsAfterTimeout ==
    \A c \in Clients :
       (client[c].out = "502" /\ client[c].pc = "done") => cb[c] # <<>>

\* a routing loop that has been started and has not returned
Alive(l) == loop[l].pc \notin {"none", "ended"}

\* C13: at most one routing loop is alive at any time.
C13_SingleLoop == Cardinality({l \in Agents : Alive(l)}) <= 1

\* C14: once the last agent is removed, every routing loop still alive eventually
\* receives the poison entry and returns.
C14_LoopTerminates ==
    \A l \in Agents :
       (Alive(l) /\ \E a \in Agents : agent[a].pc = "poison") ~> (loop[l].pc = "ended")

\* C15: the teardown of the last agent, which holds the mutex while it sends the
\* poison entry, eventually releases the mutex and closes the socket.
C15_TeardownCompletes ==
    \A a \in Agents :
       (agent[a].pc = "poison") ~> (agent[a].pc = "closed" /\ mu # a)

\* the session state the mutex guards
guarded == <<downstreams, downConns, waiting, requests>>

\* C16: a step changes the agent lists, the waiting map or the queue handle only
\* when the mutex is free for it to take, or when it is a step of the teardown that
\* holds the mutex; the mutex has at most one holder.
C16_MutationsLocked ==
    /\ [](mu \in Agents \cup {NoOwner})
    /\ [][guarded' # guarded
          => \/ mu = NoOwner
             \/ /\ mu \in Agents
                /\ agent'[mu] # agent[mu]
                /\ loop' = loop
                /\ client' = client]_vars

C16_Witness ==
    /\ mu # NoOwner
    /\ \E l \in Agents : loop[l].pc = "store"
    /\ \E c \in Clients : client[c].pc = "cleanup"

\* C17: when the routing loop is about to store the waiting-map entry the map
\* exists, and when it is about to pick an agent the agent list is not empty.
C17_LoopInSession ==
    \A l \in Agents :
       /\ (loop[l].pc = "store" /\ mu = NoOwner) => ~waiting.isNil
       /\ (loop[l].pc = "pick" /\ mu = NoOwner) => pickAControlConn # {}
       /\ loop[l].pc # "panic"

\* C18: no follow-up connection is bridged to the connection of a pending request
\* whose dispatcher has written the 502 response.
C18_NoBridgeAfter502 ==
    [][\A f \in Follows :
         (follow[f].pc = "bridge" /\ follow'[f].pc = "signal")
         => client[follow[f].resp].out # "502"]_vars

\* C19: a dispatcher that saw an active session and took the pending-request path
\* eventually returns.
C19_DispatcherReturns ==
    \A c \in Clients :
       (client[c].pc \in {"eval", "send", "wait", "cleanup"}) ~> (client[c].pc = "done")

\* C20: with the mutex free, the waiting map exists iff the queue handle exists iff
\* an agent is registered, and the two agent lists name the same agents in the same
\* order.
C20_Consistent ==
    mu = NoOwner
    => /\ ~waiting.isNil <=> requests # NilChan
       /\ requests # NilChan <=> Len(downConns) > 0
       /\ Len(downstreams) = Len(downConns)
       /\ \A i \in 1..Len(downConns) : downstreams[i] = downConns[i]

C20_Witness ==
    /\ mu = NoOwner
    /\ tornDown = FALSE
    /\ nchan = 2
    /\ Len(downConns) = 1
    /\ \E t \in Tokens : waiting.tab[t] # NoReq

====
